---- MODULE Spec2Model ----
(***************************************************************************)
(* A model of chaostoolkit-pixie: the tolerance evaluator                  *)
(* (chaospixie/tolerances.py), the credential resolution and the row       *)
(* normalisation of chaospixie/__init__.py.                                *)
(*                                                                         *)
(* Every call of the package is a pure function of its arguments, so each  *)
(* specification draws the arguments of one call in its initial state and  *)
(* has one action per public operation, which records what the call        *)
(* returned or raised.                                                     *)
(***************************************************************************)
EXTENDS Integers, Sequences, FiniteSets, TLC

VARIABLES
    value,                      \* tolerances: the record set (`value` / `results`)
    column,                     \* tolerances: the column name
    treshold,                   \* tolerances: the threshold (sic)
    percentile,                 \* tolerances: the requested percentile
    target,                     \* tolerances: <<>> (None) or <<key, pattern>>
    convert_from_nanoseconds,   \* tolerances: "None", "seconds", ...
    called,                     \* the operation that ran, "" before the call
    outcome,                    \* what the operation returned or raised
    environ,                    \* get_auth: os.environ
    configuration,              \* get_auth: the configuration argument
    secrets,                    \* get_auth: the secrets argument
    auth,                       \* get_auth / connect: what the call returned or raised
    rows,                       \* execute_script: the rows of the result table
    r                           \* execute_script: the returned list

vars == <<value, column, treshold, percentile, target, convert_from_nanoseconds,
          called, outcome, environ, configuration, secrets, auth, rows, r>>

(***************************************************************************)
(* Bounds of the model.                                                    *)
(***************************************************************************)
MaxRecords == 3
MaxRows == 2

(***************************************************************************)
(* Numbers.  Python computes on ints and floats; the model computes on     *)
(* exact decimals m * 10^e, on which a division by a power of ten is a     *)
(* shift of the exponent and never loses a digit.                          *)
(***************************************************************************)
Dec(m, e) == [m |-> m, e |-> e]

RECURSIVE Pow10(_)
Pow10(k) == IF k = 0 THEN 1 ELSE 10 * Pow10(k - 1)

\* floor(x / 10^k), one digit at a time
RECURSIVE FloorDivPow10(_, _)
FloorDivPow10(x, k) == IF k = 0 THEN x ELSE FloorDivPow10(x \div 10, k - 1)

\* ceil(x / 10^k)
CeilDivPow10(x, k) == 0 - FloorDivPow10(0 - x, k)

\* a <= b on decimals
Leq(a, b) ==
    IF a.e >= b.e
    THEN a.m <= FloorDivPow10(b.m, a.e - b.e)
    ELSE CeilDivPow10(a.m, b.e - a.e) <= b.m

Geq(a, b) == Leq(b, a)

NumEq(a, b) == Leq(a, b) /\ Leq(b, a)

Min(i, j) == IF i <= j THEN i ELSE j

\* a + b
Add(a, b) ==
    LET e == Min(a.e, b.e)
    IN  Dec(a.m * Pow10(a.e - e) + b.m * Pow10(b.e - e), e)

\* a * k for an integer k
MulInt(a, k) == Dec(a.m * k, a.e)

\* a / 10^k
DivPow10(a, k) == Dec(a.m, a.e - k)

\* a / 2
Half(a) == Dec(a.m * 5, a.e - 1)

(***************************************************************************)
(* Python values.  A scalar of a record is a number, a string (a sequence  *)
(* of characters, so that a pattern can be matched against it), a boolean  *)
(* or None.                                                                *)
(***************************************************************************)
Num(d) == [kind |-> "num", n |-> d, s |-> <<>>, b |-> FALSE]
Str(s) == [kind |-> "str", n |-> Dec(0, 0), s |-> s, b |-> FALSE]
Bool(b) == [kind |-> "bool", n |-> Dec(0, 0), s |-> <<>>, b |-> b]
None == [kind |-> "None", n |-> Dec(0, 0), s |-> <<>>, b |-> FALSE]

\* What a call returned or raised.
NotCalled == [kind |-> "", b |-> FALSE, msg |-> "", values |-> <<>>]
ReturnBool(b) == [kind |-> "bool", b |-> b, msg |-> "", values |-> <<>>]
ReturnList(l) == [kind |-> "list", b |-> FALSE, msg |-> "", values |-> l]
Raise(exc, msg) == [kind |-> exc, b |-> FALSE, msg |-> msg, values |-> <<>>]

(***************************************************************************)
(* re.compile and Pattern.match, for patterns made of literal characters,  *)
(* "." and a postfix "*".                                                  *)
(***************************************************************************)
Atom(ch, star) == [ch |-> ch, star |-> star]

RECURSIVE re_compile(_)
re_compile(p) ==
    IF p = <<>> THEN <<>>
    ELSE IF Len(p) >= 2 /\ p[2] = "*"
         THEN <<Atom(p[1], TRUE)>> \o re_compile(SubSeq(p, 3, Len(p)))
         ELSE <<Atom(p[1], FALSE)>> \o re_compile(Tail(p))

AtomMatches(a, c) == a.ch = "." \/ a.ch = c

\* does the compiled pattern, from atom i on, match a prefix of the characters
\* of s from position j on
RECURSIVE MatchHere(_, _, _, _)
RECURSIVE MatchStar(_, _, _, _)
MatchHere(re, i, s, j) ==
    IF i > Len(re) THEN TRUE
    ELSE IF re[i].star THEN MatchStar(re, i, s, j)
    ELSE /\ j <= Len(s)
         /\ AtomMatches(re[i], s[j])
         /\ MatchHere(re, i + 1, s, j + 1)
MatchStar(re, i, s, j) ==
    \/ MatchHere(re, i + 1, s, j)
    \/ /\ j <= Len(s)
       /\ AtomMatches(re[i], s[j])
       /\ MatchStar(re, i, s, j + 1)

\* rgx.match(v): "TypeError" when v is no string, else whether it matched
rgx_match(rgx, v) ==
    IF v.kind # "str" THEN "TypeError"
    ELSE IF MatchHere(rgx, 1, v.s, 1) THEN "match" ELSE "None"

(***************************************************************************)
(* group_values                                                            *)
(***************************************************************************)
SecondsExp == 9
MillisecondsExp == 6
MicrosecondsExp == 3

\* Mutant: the divisors of milliseconds and microseconds are exchanged.
convert_exchanged(v, mode) ==
    IF mode = "seconds" THEN DivPow10(v, SecondsExp)
    ELSE IF mode = "milliseconds" THEN DivPow10(v, MicrosecondsExp)
    ELSE IF mode = "microseconds" THEN DivPow10(v, MillisecondsExp)
    ELSE v

\* lines 197-202: the unit conversion of one value
convert(v, mode) ==
    IF mode = "seconds" THEN DivPow10(v, SecondsExp)
    ELSE IF mode = "milliseconds" THEN DivPow10(v, MillisecondsExp)
    ELSE IF mode = "microseconds" THEN DivPow10(v, MicrosecondsExp)
    ELSE v

\* line 189: the record is skipped ("skip"), kept ("keep") or the match raises;
\* key is "" and filtering is off when no target was given
filter_step(rec, key, filtering, rgx) ==
    IF key # "" /\ key \in DOMAIN rec /\ filtering
    THEN LET m == rgx_match(rgx, rec[key])
         IN  IF m = "TypeError" THEN "TypeError"
             ELSE IF m = "None" THEN "skip" ELSE "keep"
    ELSE "keep"

\* the loop of lines 188-204 from record i on, values being the list so far
RECURSIVE group_loop(_, _, _, _, _, _, _, _)
group_loop(results, col, key, filtering, rgx, mode, i, values) ==
    IF i > Len(results) THEN ReturnList(values)
    ELSE LET rec == results[i]
             f == filter_step(rec, key, filtering, rgx)
         IN  IF f = "TypeError"
             THEN Raise("TypeError", "expected string or bytes-like object")
             ELSE IF f = "skip" \/ col \notin DOMAIN rec
             THEN group_loop(results, col, key, filtering, rgx, mode, i + 1, values)
             ELSE group_loop(results, col, key, filtering, rgx, mode, i + 1,
                             Append(values, convert(rec[col].n, mode)))

\* lines 183-186: the key and the pattern are read from the target once
group_values(results, col, tgt, mode) ==
    IF tgt # <<>>
    THEN group_loop(results, col, tgt[1], TRUE, re_compile(tgt[2]), mode, 1, <<>>)
    ELSE group_loop(results, col, "", FALSE, <<>>, mode, 1, <<>>)

(***************************************************************************)
(* statistics.median and statistics.quantiles, as tolerances.py calls them *)
(***************************************************************************)
\* sorted(): insertion of x into an ascending list, then insertion sort
RECURSIVE Insert(_, _)
Insert(x, l) ==
    IF l = <<>> THEN <<x>>
    ELSE IF Leq(x, Head(l)) THEN <<x>> \o l
    ELSE <<Head(l)>> \o Insert(x, Tail(l))

RECURSIVE sorted(_)
sorted(l) == IF l = <<>> THEN <<>> ELSE Insert(Head(l), sorted(Tail(l)))

StatOk(v) == [exc |-> "", v |-> v]
StatisticsError == [exc |-> "StatisticsError", v |-> Dec(0, 0)]

\* Mutant: the median is read from the data as given, unsorted.
median_unsorted(values) ==
    LET data == values
        n == Len(data)
    IN  IF n = 0 THEN StatisticsError
        ELSE IF n % 2 = 1 THEN StatOk(data[(n \div 2) + 1])
        ELSE StatOk(Half(Add(data[n \div 2], data[(n \div 2) + 1])))

\* statistics.median(values)
median(values) ==
    LET data == sorted(values)
        n == Len(data)
    IN  IF n = 0 THEN StatisticsError
        ELSE IF n % 2 = 1 THEN StatOk(data[(n \div 2) + 1])
        ELSE StatOk(Half(Add(data[n \div 2], data[(n \div 2) + 1])))

\* quantiles(values, n=100): n is 10^QuantilesExp
QuantilesN == 100
QuantilesExp == 2

\* the i-th cut point of the default ("exclusive") method
CutPoint(data, i) ==
    LET ld == Len(data)
        m == ld + 1
        j0 == (i * m) \div QuantilesN
        j == IF j0 < 1 THEN 1 ELSE IF j0 > ld - 1 THEN ld - 1 ELSE j0
        delta == i * m - j * QuantilesN
    IN  DivPow10(Add(MulInt(data[j], QuantilesN - delta),
                     MulInt(data[j + 1], delta)),
                 QuantilesExp)

\* Mutant: a single data point is accepted and repeated at every cut point.
quantiles_single_point(values) ==
    LET data == sorted(values)
    IN  IF Len(data) < 1
        THEN [exc |-> "StatisticsError", data |-> <<>>, len |-> 0]
        ELSE IF Len(data) = 1
        THEN [exc |-> "", data |-> data \o data, len |-> QuantilesN - 1]
        ELSE [exc |-> "", data |-> data, len |-> QuantilesN - 1]

\* quantiles(values, n=100).  The list of the n - 1 cut points is kept as the
\* sorted data it is interpolated from: its element k (from 1) is
\* CutPoint(data, k).
quantiles(values) ==
    LET data == sorted(values)
    IN  IF Len(data) < 2
        THEN [exc |-> "StatisticsError", data |-> <<>>, len |-> 0]
        ELSE [exc |-> "", data |-> data, len |-> QuantilesN - 1]

\* q[i] on a Python list: a negative index counts from the end
InRange(q, i) == (0 - q.len) <= i /\ i < q.len
Item(q, i) == CutPoint(q.data, IF i >= 0 THEN i + 1 ELSE q.len + i + 1)

(***************************************************************************)
(* The four tolerances                                                     *)
(***************************************************************************)
\* Mutant: an empty extraction is reported as "tolerance not met".
median_should_be_below_swallows(col, t, mode, tgt, val) ==
    LET g == group_values(val, col, tgt, mode)
    IN  IF g.kind # "list" THEN g
        ELSE LET m == median(g.values)
             IN  IF m.exc = "StatisticsError" THEN ReturnBool(FALSE)
                 ELSE ReturnBool(Leq(m.v, t))

\* Mutant: the comparison is strict.
median_should_be_below_strict(col, t, mode, tgt, val) ==
    LET g == group_values(val, col, tgt, mode)
    IN  IF g.kind # "list" THEN g
        ELSE LET m == median(g.values)
             IN  IF m.exc = "StatisticsError"
                 THEN Raise("ActivityFailed", "failed to compute median")
                 ELSE ReturnBool(~Leq(t, m.v))

median_should_be_below(col, t, mode, tgt, val) ==
    LET g == group_values(val, col, tgt, mode)
    IN  IF g.kind # "list" THEN g
        ELSE LET m == median(g.values)
             IN  IF m.exc = "StatisticsError"
                 THEN Raise("ActivityFailed", "failed to compute median")
                 ELSE ReturnBool(Leq(m.v, t))

median_should_be_above(col, t, tgt, mode, val) ==
    LET g == group_values(val, col, tgt, mode)
    IN  IF g.kind # "list" THEN g
        ELSE LET m == median(g.values)
             IN  IF m.exc = "StatisticsError"
                 THEN Raise("ActivityFailed", "failed to compute median")
                 ELSE ReturnBool(Geq(m.v, t))

percentile_should_be_below(col, t, p, tgt, mode, val) ==
    LET g == group_values(val, col, tgt, mode)
    IN  IF g.kind # "list" THEN g
        ELSE LET q == quantiles(g.values)
             IN  IF q.exc = "StatisticsError"
                 THEN Raise("ActivityFailed", "failed to compute percentiles")
                 ELSE IF ~InRange(q, p - 1)
                 THEN Raise("IndexError", "list index out of range")
                 ELSE ReturnBool(Leq(Item(q, p - 1), t))

percentile_should_be_above(col, t, p, tgt, mode, val) ==
    LET g == group_values(val, col, tgt, mode)
    IN  IF g.kind # "list" THEN g
        ELSE LET q == quantiles(g.values)
             IN  IF q.exc = "StatisticsError"
                 THEN Raise("ActivityFailed", "failed to compute percentiles")
                 ELSE IF ~InRange(q, p - 1)
                 THEN Raise("IndexError", "list index out of range")
                 ELSE ReturnBool(Geq(Item(q, p - 1), t))

(***************************************************************************)
(* get_auth and connect.  A string-or-None is <<>> for None and <<s>> for  *)
(* the string s; a mapping argument is None or a dict.                     *)
(***************************************************************************)
PyNone == <<>>
Some(s) == <<s>>
Truthy(v) == v # PyNone /\ v[1] # ""

NoneDict == [none |-> TRUE, items |-> <<>>]
Dict(d) == [none |-> FALSE, items |-> d]

\* `x or {}`
OrEmpty(x) == IF x.none THEN <<>> ELSE x.items

\* d.get(k, default)
dict_get(d, k, default) == IF k \in DOMAIN d THEN Some(d[k]) ELSE default

\* os.getenv(k, default)
os_getenv(env, k, default) == IF k \in DOMAIN env THEN Some(env[k]) ELSE default

DEFAULT_PIXIE_URL == "work.withpixie.ai:443"

NoAuth == [kind |-> "", px_cluster_id |-> PyNone, px_key |-> PyNone,
           px_server_url |-> PyNone]
InvalidExperiment(what) ==
    [kind |-> what, px_cluster_id |-> PyNone, px_key |-> PyNone,
     px_server_url |-> PyNone]

\* Mutant: the explicit value is looked up first, the environment second.
get_auth_explicit_first(env, config, secr) ==
    LET c == OrEmpty(config)
        s == OrEmpty(secr)
        px_cluster_id ==
            dict_get(c, "pixie_cluster_id", os_getenv(env, "PIXIE_CLUSTER_ID", PyNone))
        px_key == dict_get(s, "api_key", os_getenv(env, "PIXIE_API_KEY", PyNone))
        px_server_url ==
            dict_get(c, "px_server_url",
                     os_getenv(env, "PIXIE_SERVER_URL", Some(DEFAULT_PIXIE_URL)))
    IN  IF ~Truthy(px_cluster_id)
        THEN InvalidExperiment("InvalidExperiment: missing the Pixie cluster id")
        ELSE IF ~Truthy(px_key)
        THEN InvalidExperiment("InvalidExperiment: missing the Pixie API key")
        ELSE [kind |-> "dict", px_cluster_id |-> px_cluster_id, px_key |-> px_key,
              px_server_url |-> px_server_url]

get_auth(env, config, secr) ==
    LET c == OrEmpty(config)
        s == OrEmpty(secr)
        px_cluster_id ==
            os_getenv(env, "PIXIE_CLUSTER_ID", dict_get(c, "pixie_cluster_id", PyNone))
        px_key == os_getenv(env, "PIXIE_API_KEY", dict_get(s, "api_key", PyNone))
        px_server_url ==
            os_getenv(env, "PIXIE_SERVER_URL",
                      dict_get(c, "px_server_url", Some(DEFAULT_PIXIE_URL)))
    IN  IF ~Truthy(px_cluster_id)
        THEN InvalidExperiment("InvalidExperiment: missing the Pixie cluster id")
        ELSE IF ~Truthy(px_key)
        THEN InvalidExperiment("InvalidExperiment: missing the Pixie API key")
        ELSE [kind |-> "dict", px_cluster_id |-> px_cluster_id, px_key |-> px_key,
              px_server_url |-> px_server_url]

\* connect: the client is built from the three values get_auth resolved
connect(env, config, secr) ==
    LET a == get_auth(env, config, secr)
    IN  IF a.kind # "dict" THEN a ELSE [a EXCEPT !.kind = "Conn"]

(***************************************************************************)
(* execute_script: serialize_row, encode, handle_timestamp                 *)
(***************************************************************************)
Cell(kind, fmt, v) == [kind |-> kind, fmt |-> fmt, v |-> v]

\* encode: dates and datetimes to their ISO string, UUIDs to their string
encode(o) ==
    IF o.kind = "datetime" THEN Cell("str", "isoformat", o.v)
    ELSE IF o.kind = "uuid" THEN Cell("str", "uuid", o.v)
    ELSE o

serialize_row(row) == [c \in DOMAIN row |-> encode(row[c])]

NanosPerMicro == 1000

\* timedelta(microseconds=x) rounds x to the nearest microsecond, ties to even
RoundHalfEven(n, d) ==
    LET q == n \div d
        rem == n % d
    IN  IF 2 * rem < d THEN q
        ELSE IF 2 * rem > d THEN q + 1
        ELSE IF q % 2 = 0 THEN q ELSE q + 1

\* microseconds since the epoch, UTC
nanotime_to_datetime(nano) == Cell("datetime", "", RoundHalfEven(nano, NanosPerMicro))

SetItem(d, k, v) == [c \in (DOMAIN d) \cup {k} |-> IF c = k THEN v ELSE d[c]]

\* Mutant: three independent tests instead of if / elif: the last match wins.
handle_timestamp_last_wins(row) ==
    IF "start_time" \in DOMAIN row
    THEN SetItem(row, "_dt", encode(nanotime_to_datetime(row["start_time"].v)))
    ELSE IF "create_time" \in DOMAIN row
    THEN SetItem(row, "_dt", encode(nanotime_to_datetime(row["create_time"].v)))
    ELSE IF "time_" \in DOMAIN row
    THEN SetItem(row, "_dt", encode(nanotime_to_datetime(row["time_"].v)))
    ELSE row

handle_timestamp(row) ==
    IF "time_" \in DOMAIN row
    THEN SetItem(row, "_dt", encode(nanotime_to_datetime(row["time_"].v)))
    ELSE IF "create_time" \in DOMAIN row
    THEN SetItem(row, "_dt", encode(nanotime_to_datetime(row["create_time"].v)))
    ELSE IF "start_time" \in DOMAIN row
    THEN SetItem(row, "_dt", encode(nanotime_to_datetime(row["start_time"].v)))
    ELSE row

execute_script(table) ==
    [i \in 1 .. Len(table) |-> handle_timestamp(serialize_row(table[i]))]

(***************************************************************************)
(* The arguments the calls are checked on                                  *)
(***************************************************************************)
Consumer1 == <<"/", "c", "o", "n", "s", "u", "m", "e", "r", "/", "1">>
Consumer2 == <<"/", "c", "o", "n", "s", "u", "m", "e", "r", "/", "2">>
Producer3 == <<"/", "p", "r", "o", "d", "u", "c", "e", "r", "/", "3">>
ConsumerPattern == <<"/", "c", "o", "n", "s", "u", "m", "e", "r", ".", "*">>

Whole(i) == Num(Dec(i, 0))

\* the records of tests/test_tolerances.py, a record without the filter key,
\* and a record whose value at the filter key is a number
Records ==
    { ("latency" :> Whole(1)) @@ ("pod" :> Str(Consumer1)),
      ("latency" :> Whole(2)) @@ ("pod" :> Str(Consumer2)),
      ("something" :> Whole(2)) @@ ("pod" :> Str(Consumer2)),
      ("latency" :> Whole(3)) @@ ("pod" :> Str(Producer3)),
      ("latency" :> Whole(3)),
      ("latency" :> Whole(2)) @@ ("pod" :> Whole(200)) }

SeqsUpTo(S, n) == UNION { [1 .. k -> S] : k \in 0 .. n }

Columns == {"latency"}
Tresholds == {Dec(2, 0), Dec(2, 0 - SecondsExp)}
Percentiles == {1, 50, 99, 100}
Targets == {<<>>, <<"pod", ConsumerPattern>>}
Conversions == {"None", "seconds", "milliseconds", "microseconds"}

Operations == {"median_should_be_below", "median_should_be_above",
               "percentile_should_be_below", "percentile_should_be_above",
               "group_values"}

(***************************************************************************)
(* Spec: one call of the tolerance evaluator                               *)
(***************************************************************************)
DefaultPercentile == 99

\* The record set, the column, the target and the conversion are fixed before
\* the call; each tolerance is called with a threshold, the percentile
\* tolerances with a percentile as well.
Init ==
    /\ value \in SeqsUpTo(Records, MaxRecords)
    /\ column \in Columns
    /\ target \in Targets
    /\ convert_from_nanoseconds \in Conversions
    /\ treshold = Dec(0, 0)
    /\ percentile = DefaultPercentile
    /\ called = ""
    /\ outcome = NotCalled
    /\ environ = <<>>
    /\ configuration = NoneDict
    /\ secrets = NoneDict
    /\ auth = NoAuth
    /\ rows = <<>>
    /\ r = <<>>

Frame == UNCHANGED <<value, column, target, convert_from_nanoseconds, environ,
                     configuration, secrets, auth, rows, r>>

MedianShouldBeBelow ==
    /\ called = ""
    /\ called' = "median_should_be_below"
    /\ \E t \in Tresholds :
        /\ treshold' = t
        /\ outcome' = median_should_be_below(column, t, convert_from_nanoseconds,
                                             target, value)
    /\ UNCHANGED percentile
    /\ Frame

MedianShouldBeAbove ==
    /\ called = ""
    /\ called' = "median_should_be_above"
    /\ \E t \in Tresholds :
        /\ treshold' = t
        /\ outcome' = median_should_be_above(column, t, target,
                                             convert_from_nanoseconds, value)
    /\ UNCHANGED percentile
    /\ Frame

PercentileShouldBeBelow ==
    /\ called = ""
    /\ called' = "percentile_should_be_below"
    /\ \E t \in Tresholds, p \in Percentiles :
        /\ treshold' = t
        /\ percentile' = p
        /\ outcome' = percentile_should_be_below(column, t, p, target,
                                                 convert_from_nanoseconds, value)
    /\ Frame

PercentileShouldBeAbove ==
    /\ called = ""
    /\ called' = "percentile_should_be_above"
    /\ \E t \in Tresholds, p \in Percentiles :
        /\ treshold' = t
        /\ percentile' = p
        /\ outcome' = percentile_should_be_above(column, t, p, target,
                                                 convert_from_nanoseconds, value)
    /\ Frame

GroupValues ==
    /\ called = ""
    /\ called' = "group_values"
    /\ outcome' = group_values(value, column, target, convert_from_nanoseconds)
    /\ UNCHANGED <<treshold, percentile>>
    /\ Frame

Next ==
    \/ MedianShouldBeBelow
    \/ MedianShouldBeAbove
    \/ PercentileShouldBeBelow
    \/ PercentileShouldBeAbove
    \/ GroupValues

Spec == Init /\ [][Next]_vars

(***************************************************************************)
(* SpecAuth: one call of get_auth or connect                               *)
(***************************************************************************)
EnvNames == {"PIXIE_CLUSTER_ID", "PIXIE_API_KEY", "PIXIE_SERVER_URL"}

\* every mapping from some of the keys to one of the values
Mappings(keys, values) == UNION { [D -> values] : D \in SUBSET keys }

Environs == Mappings(EnvNames, {"", "from-env"})
Configurations ==
    {NoneDict} \cup
    { Dict(d) : d \in Mappings({"pixie_cluster_id", "px_server_url"},
                               {"", "from-configuration"}) }
Secrets ==
    {NoneDict} \cup { Dict(d) : d \in Mappings({"api_key"}, {"", "from-secrets"}) }

TolerancesIdle ==
    /\ value = <<>>
    /\ column = "latency"
    /\ treshold = Dec(0, 0)
    /\ percentile = DefaultPercentile
    /\ target = <<>>
    /\ convert_from_nanoseconds = "None"
    /\ outcome = NotCalled

InitAuth ==
    /\ environ \in Environs
    /\ configuration \in Configurations
    /\ secrets \in Secrets
    /\ auth = NoAuth
    /\ called = ""
    /\ TolerancesIdle
    /\ rows = <<>>
    /\ r = <<>>

GetAuth ==
    /\ called = ""
    /\ called' = "get_auth"
    /\ auth' = get_auth(environ, configuration, secrets)
    /\ UNCHANGED <<value, column, treshold, percentile, target,
                   convert_from_nanoseconds, outcome, environ, configuration,
                   secrets, rows, r>>

Connect ==
    /\ called = ""
    /\ called' = "connect"
    /\ auth' = connect(environ, configuration, secrets)
    /\ UNCHANGED <<value, column, treshold, percentile, target,
                   convert_from_nanoseconds, outcome, environ, configuration,
                   secrets, rows, r>>

NextAuth == GetAuth \/ Connect

SpecAuth == InitAuth /\ [][NextAuth]_vars

(***************************************************************************)
(* SpecRows: one call of execute_script on the rows of a table             *)
(***************************************************************************)
TimeColumns == <<"time_", "create_time", "start_time">>

\* the value a timestamp column holds, in nanoseconds, and a source column
\* that happens to be named _dt
FixedValue(c) ==
    IF c = "time_" THEN Cell("int", "", 1499)
    ELSE IF c = "create_time" THEN Cell("int", "", 2500)
    ELSE IF c = "start_time" THEN Cell("int", "", 3500)
    ELSE Cell("str", "", 0)

\* the values of the column cola: an integer, a UUID, a datetime
ColaValues == {Cell("int", "", 1), Cell("uuid", "", 7), Cell("datetime", "", 5)}

ColumnNames == {"cola", "time_", "create_time", "start_time", "_dt"}

Rows ==
    UNION { { [c \in D |-> IF c = "cola" THEN v ELSE FixedValue(c)] : v \in ColaValues }
            : D \in SUBSET ColumnNames }

InitRows ==
    /\ rows \in SeqsUpTo(Rows, MaxRows)
    /\ r = <<>>
    /\ called = ""
    /\ TolerancesIdle
    /\ environ = <<>>
    /\ configuration = NoneDict
    /\ secrets = NoneDict
    /\ auth = NoAuth

ExecuteScript ==
    /\ called = ""
    /\ called' = "execute_script"
    /\ r' = execute_script(rows)
    /\ UNCHANGED <<value, column, treshold, percentile, target,
                   convert_from_nanoseconds, outcome, environ, configuration,
                   secrets, auth, rows>>

NextRows == ExecuteScript

SpecRows == InitRows /\ [][NextRows]_vars

(***************************************************************************)
(* Properties of the tolerance evaluator (Spec)                            *)
(***************************************************************************)
Tolerances == {"median_should_be_below", "median_should_be_above",
               "percentile_should_be_below", "percentile_should_be_above"}
PercentileTolerances == {"percentile_should_be_below", "percentile_should_be_above"}

\* what the extraction pipeline gives on the arguments of the call
Extracted == group_values(value, column, target, convert_from_nanoseconds)
ExtractedList == Extracted.kind = "list"

\* C1: when the extraction returns no value, each of the four tolerances ends
\* with ActivityFailed and returns no boolean, whatever the threshold, the
\* percentile and the unit conversion.
C1_EmptyExtractionFails ==
    (called \in Tolerances /\ Extracted = ReturnList(<<>>))
        => outcome.kind = "ActivityFailed"

\* C1 witness: a percentile tolerance ran with a conversion on records that all
\* have the column and were all excluded by the target filter.
C1_Witness ==
    /\ called = "percentile_should_be_above"
    /\ Len(value) >= 2
    /\ \A i \in 1 .. Len(value) : column \in DOMAIN value[i]
    /\ target # <<>>
    /\ convert_from_nanoseconds = "seconds"
    /\ ExtractedList /\ Extracted.values = <<>>
    /\ outcome.kind = "ActivityFailed"

\* The k-th smallest value of a list, by counting and without sorting.
CountBelow(L, x) == Cardinality({ i \in 1 .. Len(L) : ~Leq(x, L[i]) })
CountUpTo(L, x) == Cardinality({ i \in 1 .. Len(L) : Leq(L[i], x) })
KthSmallest(L, k) ==
    CHOOSE x \in { L[i] : i \in 1 .. Len(L) } :
        CountBelow(L, x) < k /\ k <= CountUpTo(L, x)

\* The median as statistics defines it: the middle value of an odd number of
\* values, the average of the two middle values of an even number.
MedianOf(L) ==
    IF Len(L) % 2 = 1 THEN KthSmallest(L, (Len(L) + 1) \div 2)
    ELSE Half(Add(KthSmallest(L, Len(L) \div 2), KthSmallest(L, (Len(L) \div 2) + 1)))

\* The selected percentile of a list (q its cut points), when there is one.
HasPercentile(q, p) == q.exc = "" /\ InRange(q, p - 1)
PercentileOf(q, p) == Item(q, p - 1)

\* C2: on a non-empty extracted list the "below" tolerances return true exactly
\* when the statistic is <= the threshold and the "above" tolerances exactly when
\* it is >= the threshold, equality included; the median is the middle value or
\* the average of the two middle values.
C2_InclusiveComparison ==
    called \in Tolerances =>
        LET e == Extracted
            L == e.values
            q == quantiles(L)
        IN  (e.kind = "list" /\ L # <<>>) =>
            /\ called = "median_should_be_below"
                => outcome = ReturnBool(Leq(MedianOf(L), treshold))
            /\ called = "median_should_be_above"
                => outcome = ReturnBool(Geq(MedianOf(L), treshold))
            /\ called = "percentile_should_be_below"
                => (outcome = ReturnBool(TRUE)
                        <=> (HasPercentile(q, percentile)
                             /\ Leq(PercentileOf(q, percentile), treshold)))
            /\ called = "percentile_should_be_above"
                => (outcome = ReturnBool(TRUE)
                        <=> (HasPercentile(q, percentile)
                             /\ Geq(PercentileOf(q, percentile), treshold)))

\* C2 witness: the median of an even number of values equals the threshold and
\* median_should_be_below returned true.
C2_Witness ==
    /\ called = "median_should_be_below"
    /\ ExtractedList
    /\ Len(Extracted.values) = 2
    /\ Extracted.values[1] # Extracted.values[2]
    /\ NumEq(MedianOf(Extracted.values), treshold)
    /\ outcome = ReturnBool(TRUE)

\* C3: for every percentile p in 1..100 and every extracted list of at least 2
\* values, the percentile tolerances select the boundary at index p-1 of the
\* partition and return a boolean; no p in 1..100 makes the call fail.
C3_EveryPercentileSelects ==
    (called \in PercentileTolerances /\ ExtractedList
        /\ Len(Extracted.values) >= 2 /\ percentile \in 1 .. 100) =>
        /\ outcome.kind = "bool"
        /\ LET q == CutPoint(sorted(Extracted.values), percentile)
           IN  outcome.b = IF called = "percentile_should_be_below"
                           THEN Leq(q, treshold) ELSE Geq(q, treshold)

\* C6: on an extracted list of exactly one value the percentile tolerances end
\* with ActivityFailed "failed to compute percentiles" for every percentile and
\* threshold, and the median tolerances return a boolean.
C6_SingleValue ==
    (called \in Tolerances /\ Len(Extracted.values) = 1) =>
        IF called \in PercentileTolerances
        THEN outcome = Raise("ActivityFailed", "failed to compute percentiles")
        ELSE outcome.kind = "bool"

\* C6 witness: a percentile tolerance failed on a list of one value although
\* the record set holds several records.
C6_Witness ==
    /\ called = "percentile_should_be_below"
    /\ Len(value) >= 2
    /\ ExtractedList
    /\ Len(Extracted.values) = 1
    /\ outcome = Raise("ActivityFailed", "failed to compute percentiles")

\* The call that ran, applied to another record set with the same arguments.
Rerun(records) ==
    IF called = "median_should_be_below"
    THEN median_should_be_below(column, treshold, convert_from_nanoseconds, target, records)
    ELSE IF called = "median_should_be_above"
    THEN median_should_be_above(column, treshold, target, convert_from_nanoseconds, records)
    ELSE IF called = "percentile_should_be_below"
    THEN percentile_should_be_below(column, treshold, percentile, target,
                                    convert_from_nanoseconds, records)
    ELSE percentile_should_be_above(column, treshold, percentile, target,
                                    convert_from_nanoseconds, records)

\* the records with those at positions i and j exchanged
Swap(records, i, j) ==
    [k \in 1 .. Len(records) |->
        IF k = i THEN records[j] ELSE IF k = j THEN records[i] ELSE records[k]]

\* C8: the outcome of each tolerance (a boolean or an exception) does not depend
\* on the order of the records.  Exchanging two neighbouring records leaves the
\* outcome unchanged; every permutation is a product of such exchanges and
\* every exchanged record set is itself a record set of the specification.
C8_OrderIndependent ==
    called \in Tolerances =>
        \A i \in 1 .. (Len(value) - 1) : Rerun(Swap(value, i, i + 1)) = outcome

\* C8 witness: a tolerance returned a boolean on three records whose column
\* values are in neither ascending nor descending order.
C8_Witness ==
    /\ called \in Tolerances
    /\ outcome.kind = "bool"
    /\ ExtractedList
    /\ Len(Extracted.values) = 3
    /\ ~Leq(Extracted.values[2], Extracted.values[1])
    /\ ~Leq(Extracted.values[2], Extracted.values[3])

\* str(v) of a scalar: the characters of a string, the decimal digits of a
\* whole number, "True", "False", "None"
Digits == <<"0", "1", "2", "3", "4", "5", "6", "7", "8", "9">>
RECURSIVE DigitsOf(_)
DigitsOf(i) ==
    IF i < 10 THEN <<Digits[i + 1]>>
    ELSE DigitsOf(i \div 10) \o <<Digits[(i % 10) + 1]>>
StrOf(v) ==
    IF v.kind = "str" THEN v.s
    ELSE IF v.kind = "num" THEN DigitsOf(v.n.m * Pow10(v.n.e))
    ELSE IF v.kind = "bool"
    THEN (IF v.b THEN <<"T", "r", "u", "e">> ELSE <<"F", "a", "l", "s", "e">>)
    ELSE <<"N", "o", "n", "e">>

\* A record is excluded by the target filter iff a target is given, the record
\* has the filter key and the string form of its value there does not match.
Excluded(rec) ==
    /\ target # <<>>
    /\ target[1] \in DOMAIN rec
    /\ ~MatchHere(re_compile(target[2]), 1, StrOf(rec[target[1]]), 1)

\* the column values, in input order, of the records from position i on that
\* have the column and are not excluded
RECURSIVE RetainedFrom(_)
RetainedFrom(i) ==
    IF i > Len(value) THEN <<>>
    ELSE IF column \in DOMAIN value[i] /\ ~Excluded(value[i])
    THEN <<value[i][column].n>> \o RetainedFrom(i + 1)
    ELSE RetainedFrom(i + 1)

\* C9: for every record set, column and optional target, group_values returns
\* exactly, in input order, the column values of the records that have the
\* column and are not excluded by the filter.
C9_GroupValuesRetained ==
    (called = "group_values" /\ convert_from_nanoseconds = "None")
        => outcome = ReturnList(RetainedFrom(1))

\* C10: when a record's value at the filter key is no string, the filter step
\* still decides from its string form and the extraction completes without
\* failure.
C10_NonStringFilterValue ==
    (/\ called = "group_values"
     /\ target # <<>>
     /\ \E i \in 1 .. Len(value) :
            /\ target[1] \in DOMAIN value[i]
            /\ value[i][target[1]].kind # "str")
        => /\ outcome.kind = "list"
           /\ Len(outcome.values) = Len(RetainedFrom(1))

(***************************************************************************)
(* Properties of get_auth and connect (SpecAuth)                           *)
(***************************************************************************)
AuthCalls == {"get_auth", "connect"}
Returned == called \in AuthCalls /\ auth.kind \in {"dict", "Conn"}
Failed == called \in AuthCalls /\ auth.kind \notin {"dict", "Conn"}

\* the explicit value of a configuration or secrets key, None when absent
ExplicitValue(mapping, k) ==
    IF ~mapping.none /\ k \in DOMAIN mapping.items THEN Some(mapping.items[k]) ELSE PyNone
\* the value of an environment variable, None when unset
EnvValue(n) == IF n \in DOMAIN environ THEN Some(environ[n]) ELSE PyNone

ExplicitClusterId == ExplicitValue(configuration, "pixie_cluster_id")
ExplicitKey == ExplicitValue(secrets, "api_key")
ExplicitUrl == ExplicitValue(configuration, "px_server_url")

\* C4 as claimed: an explicit value takes precedence over the environment
\* variable, which is used only when the explicit value is absent; only the
\* server URL falls back to a default.
C4_ExplicitTakesPrecedence ==
    Returned =>
        /\ Truthy(ExplicitClusterId) => auth.px_cluster_id = ExplicitClusterId
        /\ Truthy(ExplicitKey) => auth.px_key = ExplicitKey
        /\ Truthy(ExplicitUrl) => auth.px_server_url = ExplicitUrl
        /\ ExplicitClusterId = PyNone => auth.px_cluster_id = EnvValue("PIXIE_CLUSTER_ID")
        /\ ExplicitKey = PyNone => auth.px_key = EnvValue("PIXIE_API_KEY")
        /\ (ExplicitUrl = PyNone /\ EnvValue("PIXIE_SERVER_URL") # PyNone)
              => auth.px_server_url = EnvValue("PIXIE_SERVER_URL")
        /\ (ExplicitUrl = PyNone /\ EnvValue("PIXIE_SERVER_URL") = PyNone)
              => auth.px_server_url = Some(DEFAULT_PIXIE_URL)

\* C4 as amended: a set environment variable takes precedence, also over an
\* explicit value; the explicit value is used only when the variable is unset;
\* only the server URL falls back to a default when both are absent.
C4_EnvironmentTakesPrecedence ==
    Returned =>
        /\ EnvValue("PIXIE_CLUSTER_ID") # PyNone
              => auth.px_cluster_id = EnvValue("PIXIE_CLUSTER_ID")
        /\ EnvValue("PIXIE_API_KEY") # PyNone => auth.px_key = EnvValue("PIXIE_API_KEY")
        /\ EnvValue("PIXIE_SERVER_URL") # PyNone
              => auth.px_server_url = EnvValue("PIXIE_SERVER_URL")
        /\ EnvValue("PIXIE_CLUSTER_ID") = PyNone
              => (ExplicitClusterId # PyNone /\ auth.px_cluster_id = ExplicitClusterId)
        /\ EnvValue("PIXIE_API_KEY") = PyNone
              => (ExplicitKey # PyNone /\ auth.px_key = ExplicitKey)
        /\ (EnvValue("PIXIE_SERVER_URL") = PyNone /\ ExplicitUrl # PyNone)
              => auth.px_server_url = ExplicitUrl
        /\ (EnvValue("PIXIE_SERVER_URL") = PyNone /\ ExplicitUrl = PyNone)
              => auth.px_server_url = Some(DEFAULT_PIXIE_URL)

\* C4 witness: get_auth returned with the cluster identifier set both ways, the
\* API key set in the secrets only and the server URL set nowhere.
C4_Witness ==
    /\ called = "get_auth"
    /\ auth.kind = "dict"
    /\ EnvValue("PIXIE_CLUSTER_ID") = Some("from-env")
    /\ ExplicitClusterId = Some("from-configuration")
    /\ EnvValue("PIXIE_API_KEY") = PyNone
    /\ ExplicitKey = Some("from-secrets")
    /\ EnvValue("PIXIE_SERVER_URL") = PyNone
    /\ ExplicitUrl = PyNone
    /\ auth.px_cluster_id = Some("from-env")

\* a value can be resolved from a source when it is there and not empty
Resolvable(explicit, env) == Truthy(explicit) \/ Truthy(env)

\* C5: the call fails with InvalidExperiment exactly when the cluster identifier
\* or the API key can be resolved from neither the configuration/secrets nor the
\* environment; otherwise it returns the three values; the server URL never
\* makes it fail.
C5_FailsExactlyWhenUnresolvable ==
    called \in AuthCalls =>
        /\ Failed <=> (\/ ~Resolvable(ExplicitClusterId, EnvValue("PIXIE_CLUSTER_ID"))
                       \/ ~Resolvable(ExplicitKey, EnvValue("PIXIE_API_KEY")))
        /\ Returned => /\ auth.px_cluster_id # PyNone
                       /\ auth.px_key # PyNone
                       /\ auth.px_server_url # PyNone

(***************************************************************************)
(* Properties of execute_script (SpecRows)                                 *)
(***************************************************************************)
\* the first of time_, create_time, start_time the row has, "" when none
FirstTimeColumn(row) ==
    LET present == { k \in 1 .. Len(TimeColumns) : TimeColumns[k] \in DOMAIN row }
    IN  IF present = {} THEN ""
        ELSE TimeColumns[CHOOSE k \in present : \A l \in present : k <= l]

\* C7: the derived field of a row is computed from time_ if the row has it,
\* else from create_time, else from start_time; with several of them only the
\* first in that order is used, and with none no field is added.
C7_TimestampPriority ==
    called = "execute_script" =>
        /\ Len(r) = Len(rows)
        /\ \A i \in 1 .. Len(rows) :
              LET c == FirstTimeColumn(rows[i])
              IN  IF c = ""
                  THEN r[i] = serialize_row(rows[i])
                  ELSE /\ "_dt" \in DOMAIN r[i]
                       /\ r[i]["_dt"] = encode(nanotime_to_datetime(rows[i][c].v))

\* C7 witness: one row with the three timestamp columns, whose derived field
\* comes from time_, and one row with none of them.
C7_Witness ==
    /\ called = "execute_script"
    /\ Len(rows) = 2
    /\ {"time_", "create_time", "start_time"} \subseteq DOMAIN rows[1]
    /\ r[1]["_dt"] = Cell("str", "isoformat", 1)
    /\ FirstTimeColumn(rows[2]) = ""
    /\ "cola" \in DOMAIN rows[2]
    /\ r[2] = serialize_row(rows[2])

\* C11: after execute_script every source column of a row is in the resulting
\* record with its own encoded value; adding the derived timestamp field never
\* overwrites or removes a source column, whatever the source columns are named.
C11_SourceColumnsKept ==
    called = "execute_script" =>
        \A i \in 1 .. Len(rows) :
            \A c \in DOMAIN rows[i] :
                /\ c \in DOMAIN r[i]
                /\ r[i][c] = encode(rows[i][c])

(***************************************************************************)
(* Unit conversion (Spec)                                                  *)
(***************************************************************************)
\* C12: every raw value v that group_values retains is returned as v / 10^9
\* for "seconds", v / 10^6 for "milliseconds", v / 10^3 for "microseconds" and
\* as v itself without conversion; the conversion changes neither which
\* records are retained nor their order.
C12_UnitConversion ==
    (called = "group_values" /\ outcome.kind = "list") =>
        LET raw == RetainedFrom(1)
            k == IF convert_from_nanoseconds = "seconds" THEN 9
                 ELSE IF convert_from_nanoseconds = "milliseconds" THEN 6
                 ELSE IF convert_from_nanoseconds = "microseconds" THEN 3
                 ELSE 0
        IN  /\ Len(outcome.values) = Len(raw)
            /\ \A i \in 1 .. Len(raw) :
                  IF convert_from_nanoseconds = "None"
                  THEN outcome.values[i] = raw[i]
                  ELSE LET v == outcome.values[i]
                       IN  NumEq(Dec(v.m, v.e + k), raw[i])

\* C12 witness: group_values converted to milliseconds the two values, in
\* descending order, that the target filter retained out of three records.
C12_Witness ==
    /\ called = "group_values"
    /\ convert_from_nanoseconds = "milliseconds"
    /\ target # <<>>
    /\ Len(value) = 3
    /\ outcome.kind = "list"
    /\ Len(outcome.values) = 2
    /\ ~Leq(outcome.values[1], outcome.values[2])
    /\ NumEq(outcome.values[1], Dec(2, 0 - 6))

====
